---- MODULE Spec2Model ----
(***************************************************************************)
(* Model of the Minesweeper inference engine of src/minesweeper.py:        *)
(* class Sentence, class MinesweeperAI and the two board queries of class  *)
(* Minesweeper that produce a clue (is_mine, nearby_mines).                *)
(*                                                                         *)
(* A Sentence is a record [cells, count]; the knowledge base is a sequence *)
(* of Sentences in list order.  list.remove() removes the first element    *)
(* that is == to its argument, and Sentence.__eq__ compares cells and      *)
(* count, so the list is modelled by value.                                *)
(*                                                                         *)
(* One call of add_knowledge is a run of steps: the entry step, then for   *)
(* each check_current_knowledge a loop of forget_mines_or_safes (one scan, *)
(* then one step per engine-level mark_mine / mark_safe) and one           *)
(* subset-resolution pass, then the step that builds the new Sentence.     *)
(* The cells of a confirmed Sentence are marked in any order (the order of *)
(* iteration of a Python set).                                             *)
(*                                                                         *)
(* Three families of behaviours are specified:                             *)
(*   Spec, FairSpec     a game on a real board, every clue truthful;       *)
(*   AnySpec            a caller that passes any cell with any count;      *)
(*   KBSpec, KBFairSpec check_current_knowledge run on a given knowledge   *)
(*                      base.                                              *)
(***************************************************************************)
EXTENDS Integers, Sequences, FiniteSets, TLC

\* the board of the modelled game (MinesweeperAI(height, width))
Height == 3
Width == 3

\* ---------------------------------------------------------------- bounds
\* most mines a board holds
MaxMines == 2
\* most add_knowledge calls in one game
MaxCalls == 3
\* when clues need not be truthful: the largest count a caller supplies
\* and the most add_knowledge calls
MaxCount == 3
MaxCallsAny == 2
\* the interpreter's recursion limit: check_current_knowledge nested deeper
\* than this raises RecursionError
MaxDepth == 6
\* size of the cell universe and of the initial collection when the
\* fixpoint procedure is run on an arbitrary knowledge base
KBCells == 3
KBLen == 2

\* on a crowded board: the most cells that are not mines
MaxSafe == 3

\* size of the cell universe when the fixpoint procedure is run on a pair
\* of Sentences
PairCells == 4

VARIABLES
    worlds,         \* the boards (Minesweeper.mines) on which every clue
                    \* given so far is truthful; a game played on a real
                    \* board starts with that board alone
    moves_made,     \* MinesweeperAI.moves_made
    mines,          \* MinesweeperAI.mines
    safes,          \* MinesweeperAI.safes
    knowledge,      \* MinesweeperAI.knowledge, in list order
    pc,             \* position inside add_knowledge ("idle" between calls)
    arg,            \* the running add_knowledge: its cell and count, its
                    \* new_sentence once built, and which of its two
                    \* check_current_knowledge calls it is in (phase)
    confirm_mines,  \* forget_mines_or_safes: Sentences still to be marked
    confirm_safes,
    iter,           \* cells of Head(confirm_*) the for loop has not visited
    ret,            \* result of the last move query
    calls,          \* number of add_knowledge calls so far
    depth           \* nesting of the running check_current_knowledge

vars == <<worlds, moves_made, mines, safes, knowledge, pc, arg,
          confirm_mines, confirm_safes, iter, ret, calls, depth>>

\* an optional value: None, or Some(x)
None == <<>>
Some(x) == <<x>>
NoArg == [cell |-> <<>>, count |-> 0, phase |-> 0, new_sentence |-> None]
NoRet == [op |-> "", val |-> None]

Cells == (0 .. Height - 1) \X (0 .. Width - 1)

\* ------------------------------------------------------ class Minesweeper
\* the two range loops: all (i, j) within one row and column of cell,
\* cell itself skipped
Around(cell) ==
    {<<i, j>> : i \in cell[1] - 1 .. cell[1] + 1,
                j \in cell[2] - 1 .. cell[2] + 1} \ {cell}

is_mine(b, cell) == cell \in b

nearby_mines(b, cell) ==
    Cardinality({c \in Around(cell) :
                    /\ 0 <= c[1] /\ c[1] < Height /\ 0 <= c[2] /\ c[2] < Width
                    /\ is_mine(b, c)})

\* --------------------------------------------------------- class Sentence
Sentence(cells, count) == [cells |-> cells, count |-> count]

\* mutant: a Sentence is taken for all mines only when it is empty
known_mines_OnlyEmpty(s) ==
    IF Cardinality(s.cells) = 0 /\ s.count = 0 THEN Some(s.cells) ELSE None

known_mines(s) == IF Cardinality(s.cells) = s.count THEN Some(s.cells) ELSE None

known_safes(s) == IF s.count = 0 THEN Some(s.cells) ELSE None

\* mutant: the count is not decremented
Sentence_mark_mine_NoDecrement(s, cell) ==
    IF cell \in s.cells
    THEN [cells |-> s.cells \ {cell}, count |-> s.count]
    ELSE s

\* mutant: the count is decremented whether or not the cell was there
Sentence_mark_mine_AlwaysDecrement(s, cell) ==
    [cells |-> s.cells \ {cell}, count |-> s.count - 1]

Sentence_mark_mine(s, cell) ==
    IF cell \in s.cells
    THEN [cells |-> s.cells \ {cell}, count |-> s.count - 1]
    ELSE s

\* mutant: marking a cell safe lowers the count as marking a mine does
Sentence_mark_safe_Decrements(s, cell) ==
    IF cell \in s.cells
    THEN [cells |-> s.cells \ {cell}, count |-> s.count - 1]
    ELSE s

Sentence_mark_safe(s, cell) ==
    IF cell \in s.cells
    THEN [cells |-> s.cells \ {cell}, count |-> s.count]
    ELSE s

\* ------------------------------------------------------------ list helpers
RECURSIVE ListRemove(_, _)
\* list.remove(x): drops the first element equal to x
ListRemove(seq, x) ==
    IF seq = <<>> THEN <<>>
    ELSE IF Head(seq) = x THEN Tail(seq)
    ELSE <<Head(seq)>> \o ListRemove(Tail(seq), x)

\* list.insert(p, x) with p a 0-based position; past the end it appends
ListInsert(seq, p, x) ==
    IF p >= Len(seq) THEN Append(seq, x)
    ELSE SubSeq(seq, 1, p) \o <<x>> \o SubSeq(seq, p + 1, Len(seq))

Map(seq, F(_)) == [i \in 1 .. Len(seq) |-> F(seq[i])]

\* ---------------------------------------------------- class MinesweeperAI
\* mark_mine / mark_safe: the effect on the knowledge list
KnowledgeMarkMine(kn, cell) == Map(kn, LAMBDA s : Sentence_mark_mine(s, cell))
KnowledgeMarkSafe(kn, cell) == Map(kn, LAMBDA s : Sentence_mark_safe(s, cell))

\* mutant: the upper bounds are off by one
InBounds_OffByOne(c) ==
    0 <= c[1] /\ c[1] <= Height /\ 0 <= c[2] /\ c[2] <= Width

\* the bounds test of create_sentence
InBounds(c) == 0 <= c[1] /\ c[1] < Height /\ 0 <= c[2] /\ c[2] < Width

\* mutant: the neighbours known to be safe are not left out
create_sentence_KeepsSafes(cell, count, ms, sf) ==
    LET nb == {c \in Around(cell) : InBounds(c)}
    IN Sentence({c \in nb : c \notin ms},
                count - Cardinality({c \in nb : c \in ms}))

\* mutant: the count is not lowered for the neighbours known to be mines
create_sentence_NoAdjust(cell, count, ms, sf) ==
    LET nb == {c \in Around(cell) : InBounds(c)}
    IN Sentence({c \in nb : c \notin ms /\ c \notin sf}, count)

create_sentence(cell, count, ms, sf) ==
    LET nb == {c \in Around(cell) : InBounds(c)}
    IN Sentence({c \in nb : c \notin ms /\ c \notin sf},
                count - Cardinality({c \in nb : c \in ms}))

\* forget_mines_or_safes, the scan of one while iteration
IsKnownMines(s) == known_mines(s) # None
IsKnownSafes(s) == ~IsKnownMines(s) /\ known_safes(s) # None
IsKept(s) == ~IsKnownMines(s) /\ ~IsKnownSafes(s)

RECURSIVE InnerLoop_KeepsSuperset(_, _, _, _, _)
\* mutant: the superset Sentence is not removed when its difference is added
InnerLoop_KeepsSuperset(snap, j, kn, ex, ch) ==
    IF j > Len(snap) THEN [kn |-> kn, ex |-> ex, ch |-> ch]
    ELSE LET an == snap[j] IN
        IF ex.cells \subseteq an.cells /\ ex.cells # an.cells
        THEN InnerLoop_KeepsSuperset(snap, j + 1,
                 Append(kn, Sentence(an.cells \ ex.cells,
                                     an.count - ex.count)),
                 ex, TRUE)
        ELSE IF an.cells \subseteq ex.cells /\ ex.cells # an.cells
        THEN InnerLoop_KeepsSuperset(snap, j + 1, kn,
                 Sentence(ex.cells \ an.cells, ex.count - an.count), TRUE)
        ELSE InnerLoop_KeepsSuperset(snap, j + 1, kn, ex, ch)

RECURSIVE InnerLoop_DifferenceSwapped(_, _, _, _, _)
\* mutant: the difference of the cells is taken the wrong way round
InnerLoop_DifferenceSwapped(snap, j, kn, ex, ch) ==
    IF j > Len(snap) THEN [kn |-> kn, ex |-> ex, ch |-> ch]
    ELSE LET an == snap[j] IN
        IF ex.cells \subseteq an.cells /\ ex.cells # an.cells
        THEN InnerLoop_DifferenceSwapped(snap, j + 1,
                 Append(ListRemove(kn, an),
                        Sentence(ex.cells \ an.cells, an.count - ex.count)),
                 ex, TRUE)
        ELSE IF an.cells \subseteq ex.cells /\ ex.cells # an.cells
        THEN InnerLoop_DifferenceSwapped(snap, j + 1, kn,
                 Sentence(an.cells \ ex.cells, ex.count - an.count), TRUE)
        ELSE InnerLoop_DifferenceSwapped(snap, j + 1, kn, ex, ch)

RECURSIVE InnerLoop_KeepsCount(_, _, _, _, _)
\* mutant: the difference Sentence keeps the count of the superset
InnerLoop_KeepsCount(snap, j, kn, ex, ch) ==
    IF j > Len(snap) THEN [kn |-> kn, ex |-> ex, ch |-> ch]
    ELSE LET an == snap[j] IN
        IF ex.cells \subseteq an.cells /\ ex.cells # an.cells
        THEN InnerLoop_KeepsCount(snap, j + 1,
                 Append(ListRemove(kn, an),
                        Sentence(an.cells \ ex.cells, an.count)),
                 ex, TRUE)
        ELSE IF an.cells \subseteq ex.cells /\ ex.cells # an.cells
        THEN InnerLoop_KeepsCount(snap, j + 1, kn,
                 Sentence(ex.cells \ an.cells, ex.count), TRUE)
        ELSE InnerLoop_KeepsCount(snap, j + 1, kn, ex, ch)

\* check_current_knowledge, the inner for loop over self.knowledge[:]
RECURSIVE InnerLoop(_, _, _, _, _)
InnerLoop(snap, j, kn, ex, ch) ==
    IF j > Len(snap) THEN [kn |-> kn, ex |-> ex, ch |-> ch]
    ELSE LET an == snap[j] IN
        IF ex.cells \subseteq an.cells /\ ex.cells # an.cells
        THEN InnerLoop(snap, j + 1,
                 Append(ListRemove(kn, an),
                        Sentence(an.cells \ ex.cells, an.count - ex.count)),
                 ex, TRUE)
        ELSE IF an.cells \subseteq ex.cells /\ ex.cells # an.cells
        THEN InnerLoop(snap, j + 1, kn,
                 Sentence(ex.cells \ an.cells, ex.count - an.count), TRUE)
        ELSE InnerLoop(snap, j + 1, kn, ex, ch)

\* mutant: the for loop compares nothing and reports no change
OuterLoop_ComparesNothing(snap, i, kn) == [kn |-> kn, changed |-> FALSE]

\* mutant: is_unchanged starts False, so the first Sentence always recurses
OuterLoop_StartsChanged(snap, i, kn) ==
    IF i > Len(snap) THEN [kn |-> kn, changed |-> FALSE]
    ELSE LET k1 == ListRemove(kn, snap[i])
             r  == InnerLoop(k1, 1, k1, snap[i], TRUE)
         IN [kn |-> Append(r.kn, r.ex), changed |-> TRUE]

\* check_current_knowledge, the outer for loop over knowledge_copy, up to
\* the recursive call (changed) or the end of the loop (not changed)
RECURSIVE OuterLoop(_, _, _)
OuterLoop(snap, i, kn) ==
    IF i > Len(snap) THEN [kn |-> kn, changed |-> FALSE]
    ELSE LET k1 == ListRemove(kn, snap[i])
             r  == InnerLoop(k1, 1, k1, snap[i], FALSE)
         IN IF ~r.ch
            THEN OuterLoop(snap, i + 1, ListInsert(k1, i, snap[i]))
            ELSE [kn |-> Append(r.kn, r.ex), changed |-> TRUE]

Resolve(kn) == OuterLoop(kn, 1, kn)

\* mutant: the moves already made are not skipped
make_safe_move_AnySafe(sf, mm) ==
    IF Cardinality(sf) = 0 THEN {None}
    ELSE {Some(c) : c \in sf}

make_safe_move(sf, mm) ==
    IF Cardinality(sf) = 0 THEN {None}
    ELSE IF sf \ mm # {} THEN {Some(c) : c \in sf \ mm}
    ELSE {None}

\* mutant: the guard counts the moves only
make_random_move_GuardOnMoves(mm, ms) ==
    IF Cardinality(mm) = Height * Width THEN {None}
    ELSE {Some(c) : c \in {x \in Cells : x \notin mm \/ x \notin ms}}

\* the cells the retry loop accepts
RandomAccepts(c, mm, ms) == c \notin mm \/ c \notin ms

make_random_move(mm, ms) ==
    IF Cardinality(mm) + Cardinality(ms) = Height * Width THEN {None}
    ELSE {Some(c) : c \in {x \in Cells : RandomAccepts(x, mm, ms)}}

\* ------------------------------------------------------------------ steps
HasCells(s) == s.cells # {}

\* where forget_mines_or_safes goes on after a scan that removed something,
\* or after the last cell of a confirmed Sentence: the next Sentence of
\* confirm_mines, then of confirm_safes, then the next while iteration
Continue(cm, cs) ==
    LET cm2 == SelectSeq(cm, HasCells)
        cs2 == SelectSeq(cs, HasCells)
    IN IF cm2 # <<>>
       THEN [pc |-> "mark_mines", cm |-> cm2, cs |-> cs2,
             iter |-> Head(cm2).cells]
       ELSE IF cs2 # <<>>
       THEN [pc |-> "mark_safes", cm |-> <<>>, cs |-> cs2,
             iter |-> Head(cs2).cells]
       ELSE [pc |-> "forget", cm |-> <<>>, cs |-> <<>>, iter |-> {}]

\* mutant: moves_made is overwritten with the new cell
Enter_ResetsMoves(cell, count) ==
    /\ pc = "idle"
    /\ moves_made' = {cell}
    /\ safes' = safes \cup {cell}
    /\ knowledge' = KnowledgeMarkSafe(knowledge, cell)
    /\ arg' = [cell |-> cell, count |-> count, phase |-> 1,
               new_sentence |-> None]
    /\ pc' = "forget"
    /\ depth' = 0
    /\ ret' = NoRet
    /\ calls' = calls + 1
    /\ worlds' = {b \in worlds : /\ ~is_mine(b, cell)
                                  /\ count = nearby_mines(b, cell)}
    /\ UNCHANGED <<mines, confirm_mines, confirm_safes, iter>>

\* add_knowledge up to the first check_current_knowledge
Enter(cell, count) ==
    /\ pc = "idle"
    /\ moves_made' = moves_made \cup {cell}
    /\ safes' = safes \cup {cell}
    /\ knowledge' = KnowledgeMarkSafe(knowledge, cell)
    /\ arg' = [cell |-> cell, count |-> count, phase |-> 1,
               new_sentence |-> None]
    /\ pc' = "forget"
    /\ depth' = 0
    /\ ret' = NoRet
    /\ calls' = calls + 1
    /\ worlds' = {b \in worlds : /\ ~is_mine(b, cell)
                                  /\ count = nearby_mines(b, cell)}
    /\ UNCHANGED <<mines, confirm_mines, confirm_safes, iter>>

\* the board reports a revealed safe cell with its true count
AddKnowledge ==
    \E board \in worlds, cell \in Cells :
        /\ calls < MaxCalls
        /\ ~is_mine(board, cell)
        /\ Enter(cell, nearby_mines(board, cell))

\* any caller: any cell, any count
AddKnowledgeAny ==
    \E cell \in Cells, count \in 0 .. MaxCount :
        /\ calls < MaxCallsAny
        /\ Enter(cell, count)

ForgetScan ==
    /\ pc = "forget"
    /\ LET cm == SelectSeq(knowledge, IsKnownMines)
           cs == SelectSeq(knowledge, IsKnownSafes)
           nx == Continue(cm, cs)
       IN IF cm = <<>> /\ cs = <<>>
          THEN /\ pc' = "resolve"
               /\ UNCHANGED <<knowledge, confirm_mines, confirm_safes, iter>>
          ELSE /\ knowledge' = SelectSeq(knowledge, IsKept)
               /\ pc' = nx.pc
               /\ confirm_mines' = nx.cm
               /\ confirm_safes' = nx.cs
               /\ iter' = nx.iter
    /\ UNCHANGED <<worlds, moves_made, mines, safes, arg, ret, calls, depth>>

\* the rest of the for loops after cell has been marked
AfterMark(cell) ==
    LET nx == IF pc = "mark_mines"
              THEN Continue(Tail(confirm_mines), confirm_safes)
              ELSE Continue(<<>>, Tail(confirm_safes))
    IN IF iter \ {cell} # {}
       THEN /\ iter' = iter \ {cell}
            /\ UNCHANGED <<pc, confirm_mines, confirm_safes>>
       ELSE /\ pc' = nx.pc
            /\ confirm_mines' = nx.cm
            /\ confirm_safes' = nx.cs
            /\ iter' = nx.iter

mark_mine ==
    /\ pc = "mark_mines"
    /\ \E cell \in iter :
          /\ mines' = mines \cup {cell}
          /\ knowledge' = KnowledgeMarkMine(knowledge, cell)
          /\ AfterMark(cell)
    /\ UNCHANGED <<worlds, moves_made, safes, arg, ret, calls, depth>>

mark_safe ==
    /\ pc = "mark_safes"
    /\ \E cell \in iter :
          /\ safes' = safes \cup {cell}
          /\ knowledge' = KnowledgeMarkSafe(knowledge, cell)
          /\ AfterMark(cell)
    /\ UNCHANGED <<worlds, moves_made, mines, arg, ret, calls, depth>>

\* check_current_knowledge after forget_mines_or_safes: the for loop, then
\* either the recursive call or the return to add_knowledge
ResolveStep ==
    /\ pc = "resolve"
    /\ LET r == Resolve(knowledge)
       IN /\ knowledge' = r.kn
          /\ IF r.changed
             THEN /\ pc' = IF depth < MaxDepth THEN "forget"
                                               ELSE "RecursionError"
                  /\ depth' = depth + 1
                  /\ arg' = arg
             ELSE /\ depth' = 0
                  /\ pc' = CASE arg.phase = 1 -> "create"
                              [] arg.phase = 2 -> "idle"
                              [] OTHER -> "done"
                  /\ arg' = IF arg.phase = 2 THEN NoArg ELSE arg
    /\ UNCHANGED <<worlds, moves_made, mines, safes, confirm_mines,
                   confirm_safes, iter, ret, calls>>

\* mutant: the new Sentence is appended and the call returns without the
\* second check_current_knowledge
NewSentence_NoRecheck ==
    /\ pc = "create"
    /\ LET new_sentence == create_sentence(arg.cell, arg.count, mines, safes)
       IN IF \E i \in 1 .. Len(knowledge) : new_sentence = knowledge[i]
          THEN UNCHANGED knowledge
          ELSE knowledge' = Append(knowledge, new_sentence)
    /\ pc' = "idle"
    /\ arg' = NoArg
    /\ UNCHANGED <<worlds, moves_made, mines, safes, confirm_mines,
                   confirm_safes, iter, ret, calls, depth>>

\* mutant: the new Sentence is appended without the test for an equal one
NewSentence_NoDuplicateTest ==
    /\ pc = "create"
    /\ LET new_sentence == create_sentence(arg.cell, arg.count, mines, safes)
       IN /\ knowledge' = Append(knowledge, new_sentence)
          /\ pc' = "forget"
          /\ arg' = [arg EXCEPT !.phase = 2,
                                 !.new_sentence = Some(new_sentence)]
    /\ UNCHANGED <<worlds, moves_made, mines, safes, confirm_mines,
                   confirm_safes, iter, ret, calls, depth>>

\* add_knowledge between its two check_current_knowledge calls
NewSentence ==
    /\ pc = "create"
    /\ LET new_sentence == create_sentence(arg.cell, arg.count, mines, safes)
       IN IF \E i \in 1 .. Len(knowledge) : new_sentence = knowledge[i]
          THEN /\ pc' = "idle"
               /\ arg' = NoArg
               /\ UNCHANGED knowledge
          ELSE /\ knowledge' = Append(knowledge, new_sentence)
               /\ pc' = "forget"
               /\ arg' = [arg EXCEPT !.phase = 2,
                                      !.new_sentence = Some(new_sentence)]
    /\ UNCHANGED <<worlds, moves_made, mines, safes, confirm_mines,
                   confirm_safes, iter, ret, calls, depth>>

\* mutant: the move handed out is recorded as made
MakeSafeMove_RecordsMove ==
    /\ pc = "idle"
    /\ \E v \in make_safe_move(safes, moves_made) :
          /\ ret' = [op |-> "make_safe_move", val |-> v]
          /\ moves_made' = IF v = None THEN moves_made
                                       ELSE moves_made \cup {v[1]}
    /\ UNCHANGED <<worlds, mines, safes, knowledge, pc, arg,
                   confirm_mines, confirm_safes, iter, calls, depth>>

MakeSafeMove ==
    /\ pc = "idle"
    /\ \E v \in make_safe_move(safes, moves_made) :
          ret' = [op |-> "make_safe_move", val |-> v]
    /\ UNCHANGED <<worlds, moves_made, mines, safes, knowledge, pc, arg,
                   confirm_mines, confirm_safes, iter, calls, depth>>

MakeRandomMove ==
    /\ pc = "idle"
    /\ \E v \in make_random_move(moves_made, mines) :
          ret' = [op |-> "make_random_move", val |-> v]
    /\ UNCHANGED <<worlds, moves_made, mines, safes, knowledge, pc, arg,
                   confirm_mines, confirm_safes, iter, calls, depth>>

\* the steps inside a call
\* the clues given so far are truthful on some board
Truthful == worlds # {}

Step == ForgetScan \/ mark_mine \/ mark_safe \/ ResolveStep \/ NewSentence

Boards == {b \in SUBSET Cells : Cardinality(b) <= MaxMines}

\* MinesweeperAI.__init__
InitAI ==
    /\ moves_made = {}
    /\ mines = {}
    /\ safes = {}
    /\ knowledge = <<>>
    /\ pc = "idle"
    /\ arg = NoArg
    /\ confirm_mines = <<>>
    /\ confirm_safes = <<>>
    /\ iter = {}
    /\ ret = NoRet
    /\ calls = 0
    /\ depth = 0

\* a game on one real board
Init ==
    /\ worlds \in {{b} : b \in Boards}
    /\ InitAI

Next ==
    \/ AddKnowledge
    \/ ForgetScan
    \/ mark_mine
    \/ mark_safe
    \/ ResolveStep
    \/ NewSentence
    \/ MakeSafeMove
    \/ MakeRandomMove

Spec == Init /\ [][Next]_vars

\* every step of a started call is eventually taken: the interpreter runs
\* add_knowledge to its end
FairSpec == Spec /\ WF_vars(Step)

\* a game on a crowded board, where the moves and the deduced mines can
\* come to cover the whole board
DenseBoards == {b \in SUBSET Cells : Cardinality(Cells \ b) <= MaxSafe}

DenseInit ==
    /\ worlds \in {{b} : b \in DenseBoards}
    /\ InitAI

DenseSpec == DenseInit /\ [][Next]_vars

\* ---------------------------------------------- callers that may be wrong
NextAny ==
    \/ AddKnowledgeAny
    \/ ForgetScan
    \/ mark_mine
    \/ mark_safe
    \/ ResolveStep
    \/ NewSentence
    \/ MakeSafeMove
    \/ MakeRandomMove

\* no board is given: every placement of mines is still possible
InitAny ==
    /\ worlds = SUBSET Cells
    /\ InitAI

AnySpec == InitAny /\ [][NextAny]_vars

\* ------------------------- the fixpoint procedure on a given knowledge base
\* the first KBCells cells of the board, row by row
KBUniverse == {c \in Cells : c[1] * Width + c[2] < KBCells}

KBSentences ==
    {Sentence(cs, n) : cs \in SUBSET KBUniverse, n \in -1 .. KBCells}

\* check_current_knowledge is called on a knowledge base of up to KBLen
\* Sentences with any cells and any counts; worlds holds the placements of
\* mines of which every Sentence is true
KBInit ==
    /\ moves_made = {}
    /\ mines = {}
    /\ safes = {}
    /\ knowledge \in UNION {[1 .. n -> KBSentences] : n \in 0 .. KBLen}
    /\ worlds = {b \in SUBSET KBUniverse :
                    \A i \in 1 .. Len(knowledge) :
                        knowledge[i].count =
                            Cardinality(knowledge[i].cells \cap b)}
    /\ pc = "forget"
    /\ arg = NoArg
    /\ confirm_mines = <<>>
    /\ confirm_safes = <<>>
    /\ iter = {}
    /\ ret = NoRet
    /\ calls = 0
    /\ depth = 0

KBNext ==
    \/ ForgetScan
    \/ mark_mine
    \/ mark_safe
    \/ ResolveStep

KBSpec == KBInit /\ [][KBNext]_vars

\* the interpreter runs the procedure to its end
KBFairSpec == KBSpec /\ WF_vars(KBNext)

\* --------------------------- the fixpoint procedure on a pair of Sentences
PairUniverse == {c \in Cells : c[1] * Width + c[2] < PairCells}

\* the pairs <<A, B>> with A.cells a strict subset of B.cells and
\* 0 < count < |cells| for both
Pairs ==
    LET ss == {Sentence(cs, n) : cs \in SUBSET PairUniverse,
                                 n \in 1 .. PairCells}
        ok == {s \in ss : s.count < Cardinality(s.cells)}
    IN {p \in ok \X ok : /\ p[1].cells \subseteq p[2].cells
                         /\ p[1].cells # p[2].cells}

\* check_current_knowledge is called on a knowledge base of two such
\* Sentences, in either list order, with nothing yet marked
PairInit ==
    /\ moves_made = {}
    /\ mines = {}
    /\ safes = {}
    /\ knowledge \in {<<p[1], p[2]>> : p \in Pairs}
                     \cup {<<p[2], p[1]>> : p \in Pairs}
    /\ worlds = {b \in SUBSET PairUniverse :
                    \A i \in 1 .. Len(knowledge) :
                        knowledge[i].count =
                            Cardinality(knowledge[i].cells \cap b)}
    /\ pc = "forget"
    /\ arg = NoArg
    /\ confirm_mines = <<>>
    /\ confirm_safes = <<>>
    /\ iter = {}
    /\ ret = NoRet
    /\ calls = 0
    /\ depth = 0

PairSpec == PairInit /\ [][KBNext]_vars

\* the interpreter runs the procedure to its end
PairFairSpec == PairSpec /\ WF_vars(KBNext)

\* ------------------------------------------------------------------ claims
RECURSIVE CellSum(_)
\* the sum of |cells| over the Sentences of a knowledge base
CellSum(kn) ==
    IF kn = <<>> THEN 0 ELSE Cardinality(Head(kn).cells) + CellSum(Tail(kn))

Returned == pc = "idle" /\ calls > 0

InRange(s) == 0 <= s.count /\ s.count <= Cardinality(s.cells)

\* C1. Soundness: with truthful clues every cell of mines is a real mine of
\* the board and no cell of safes is one, in every state.
C1_Soundness ==
    \A b \in worlds : mines \subseteq b /\ safes \cap b = {}

\* a call has returned having deduced a mine and a safe cell not yet played
C1_Witness ==
    /\ Returned
    /\ mines # {}
    /\ safes \ moves_made # {}

\* C2. With truthful clues mines and safes are disjoint in every state,
\* the states between two engine-level marks of one call included.
C2_Disjoint == mines \cap safes = {}

\* between two marks of one confirmed Sentence, with mines and safes known
C2_Witness ==
    /\ pc \in {"mark_mines", "mark_safes"}
    /\ iter # {}
    /\ iter # Head(IF pc = "mark_mines" THEN confirm_mines
                                        ELSE confirm_safes).cells
    /\ mines # {}
    /\ safes \ moves_made # {}

\* C3. When a call has returned, whatever the counts supplied, no Sentence
\* of knowledge holds a cell of mines, safes or moves_made, and every cell
\* of every Sentence is on the board.
C3_SentencesPurged ==
    pc = "idle" =>
        \A i \in 1 .. Len(knowledge) :
            /\ knowledge[i].cells \cap (mines \cup safes \cup moves_made) = {}
            /\ knowledge[i].cells \subseteq Cells

\* a call with an untruthful clue has returned with mines known and a
\* Sentence retained
C3_Witness ==
    /\ Returned
    /\ ~Truthful
    /\ mines # {}
    /\ knowledge # <<>>

\* C4. When a call has returned (truthful clues), no two Sentences of
\* knowledge are equal.
C4_NoDuplicates ==
    pc = "idle" =>
        \A i, j \in 1 .. Len(knowledge) :
            i # j => knowledge[i] # knowledge[j]

C6_CallTerminates == (pc # "idle") ~> (pc = "idle")

\* the second check_current_knowledge of a call has recursed on a change
\* and reached its resolution pass again
C6_Witness ==
    /\ pc = "resolve"
    /\ arg.phase = 2
    /\ depth >= 1

\* an effective resolution step: the for loop of check_current_knowledge
\* replaced a Sentence and recursed
Resolved == pc = "resolve" /\ pc' # "done"

C8_Monotonic ==
    [][/\ mines \subseteq mines'
       /\ safes \subseteq safes'
       /\ moves_made \subseteq moves_made']_vars

\* a second call is running, with mines and safes already deduced
C8_Witness ==
    /\ calls >= 2
    /\ pc = "mark_mines"
    /\ mines # {}
    /\ safes \ moves_made # {}

\* C9. A cell returned by make_random_move is neither in moves_made nor in
\* mines.
C9_RandomMoveFresh ==
    (ret.op = "make_random_move" /\ ret.val # None) =>
        \E c \in Cells :
            /\ ret.val = Some(c)
            /\ c \notin moves_made
            /\ c \notin mines

\* C10. make_safe_move returns a cell of safes \ moves_made when there is
\* one, and None exactly when there is none.
C10_SafeMove ==
    ret.op = "make_safe_move" =>
        IF safes \ moves_made # {}
        THEN \E c \in safes \ moves_made : ret.val = Some(c)
        ELSE ret.val = None

\* make_safe_move has returned a cell while other safe cells were played
C10_Witness ==
    /\ ret.op = "make_safe_move"
    /\ ret.val # None
    /\ moves_made # {}

\* C11. make_random_move returns None exactly when
\* |moves_made| + |mines| = height * width; and with truthful clues, in
\* every state where that equality is false, some cell of the board is in
\* neither moves_made nor mines.
C11_RandomMoveNone ==
    LET full == Cardinality(moves_made) + Cardinality(mines) = Height * Width
    IN /\ ret.op = "make_random_move" => (ret.val = None <=> full)
       /\ (Truthful /\ ~full) => Cells \ (moves_made \cup mines) # {}

\* the moves and the deduced mines cover the board and make_random_move
\* has returned None
C11_Witness ==
    /\ ret.op = "make_random_move"
    /\ ret.val = None
    /\ moves_made # {}
    /\ mines # {}
    /\ moves_made \cup mines = Cells

\* C12. make_safe_move and make_random_move are read-only: in any state,
\* whatever the clues were, a step that hands out the result of a query
\* leaves mines, safes, moves_made and knowledge unchanged.
C12_QueriesReadOnly ==
    [][ret'.op \in {"make_safe_move", "make_random_move"}
          => UNCHANGED <<mines, safes, moves_made, knowledge>>]_vars

\* make_random_move has returned a cell in a state with moves made, mines
\* known and Sentences retained
C12_Witness ==
    /\ ret.op = "make_random_move"
    /\ ret.val # None
    /\ moves_made # {}
    /\ mines # {}
    /\ knowledge # <<>>

\* the cells of the board that touch cell, cell itself excluded
Neighbours(cell) ==
    {c \in Cells : /\ c # cell
                   /\ c[1] - cell[1] \in {-1, 0, 1}
                   /\ c[2] - cell[2] \in {-1, 0, 1}}

\* the step on which the running add_knowledge returns
Returns == pc # "idle" /\ pc' = "idle"

\* C13. Zero clue: with truthful clues, when add_knowledge(cell, 0)
\* returns, cell and every neighbour of cell on the board are in safes.
C13_ZeroClue ==
    [][(Returns /\ arg.count = 0)
          => ({arg.cell} \cup Neighbours(arg.cell)) \subseteq safes']_vars

\* a call with a zero clue has returned, leaving neighbours that are safe
\* and not yet played
C13_Witness ==
    /\ Returned
    /\ \E c \in moves_made :
          /\ \A b \in worlds : nearby_mines(b, c) = 0
          /\ Neighbours(c) \subseteq safes
          /\ Neighbours(c) \ moves_made # {}

\* the Sentence add_knowledge builds from its clue: about to be built when
\* the first check_current_knowledge has returned, kept by the call after
Built ==
    IF pc = "create"
    THEN create_sentence(arg.cell, arg.count, mines, safes)
    ELSE arg.new_sentence[1]

\* C14. Direct certainty: with truthful clues, if the Sentence a call
\* builds has n >= 1 cells (the neighbours that are neither known mines nor
\* known safes) and its count (the clue minus the neighbours known to be
\* mines) is n, then when the call returns all its cells are in mines.
C14_DirectCertainty ==
    [][(/\ Returns
        /\ Built.cells # {}
        /\ Built.count = Cardinality(Built.cells))
          => Built.cells \subseteq mines']_vars

\* a call is marking the cells of the Sentence it built, all of them mines,
\* with mines already known from earlier calls
C14_Witness ==
    /\ pc = "mark_mines"
    /\ arg.phase = 2
    /\ calls >= 2
    /\ Head(confirm_mines) = arg.new_sentence[1]
    /\ mines # {}
    /\ arg.new_sentence[1].count < arg.count

\* the Sentence the call builds equals one already in knowledge
BuiltIsDuplicate ==
    /\ pc = "create"
    /\ \E i \in 1 .. Len(knowledge) :
          /\ knowledge[i].cells = Built.cells
          /\ knowledge[i].count = Built.count

\* C15. Duplicate suppression on ingest: whatever the clues, when the
\* Sentence a call builds equals (same cells, same count) one already in
\* knowledge, the call returns there, and knowledge, mines and safes stay
\* what the first check_current_knowledge left; knowledge does not grow.
C15_DuplicateOnIngest ==
    [][BuiltIsDuplicate
          => /\ pc' = "idle"
             /\ UNCHANGED <<knowledge, mines, safes>>
             /\ Len(knowledge') = Len(knowledge)]_vars

\* a later call has built a Sentence with cells that knowledge already
\* holds
C15_Witness ==
    /\ BuiltIsDuplicate
    /\ calls >= 2
    /\ Built.cells # {}

\* C16. Fixpoint reached at return: with truthful clues, when a call has
\* returned (early return or append path), knowledge holds no Sentence with
\* count = 0 or count = |cells|, and no two Sentences of which one's cells
\* are a strict subset of the other's.
C16_FixpointAtReturn ==
    pc = "idle" =>
        /\ \A i \in 1 .. Len(knowledge) :
              /\ knowledge[i].count # 0
              /\ knowledge[i].count # Cardinality(knowledge[i].cells)
        /\ \A i, j \in 1 .. Len(knowledge) :
              ~(/\ knowledge[i].cells \subseteq knowledge[j].cells
                /\ knowledge[i].cells # knowledge[j].cells)

\* a call has returned with a mine known and at least two Sentences
\* retained
C16_Witness ==
    /\ Returned
    /\ Len(knowledge) >= 2
    /\ mines # {}

\* the Sentence that replaces B when A.cells is a strict subset of B.cells
Difference(A, B) == Sentence(B.cells \ A.cells, B.count - A.count)

\* what C17 says of the knowledge base the procedure ends with
PairResolved(A, D) ==
    /\ \E i \in 1 .. Len(knowledge) : knowledge[i] = A
    /\ IF D.count = Cardinality(D.cells) THEN D.cells \subseteq mines
       ELSE IF D.count = 0 THEN D.cells \subseteq safes
       ELSE knowledge \in {<<A, D>>, <<D, A>>}

\* C17. Subset resolution: run on two Sentences A and B, in either list
\* order, with A.cells a strict subset of B.cells and 0 < count < |cells|
\* for both, the fixpoint procedure ends, and it ends with A retained
\* unchanged and B replaced by D = (B.cells - A.cells, B.count - A.count):
\* the cells of D in mines if D.count = |D.cells|, in safes if D.count = 0,
\* and knowledge exactly A and D otherwise.
C17_SubsetResolution ==
    \A p \in Pairs :
        knowledge \in {<<p[1], p[2]>>, <<p[2], p[1]>>}
            => /\ <>(pc = "done")
               /\ [](pc = "done"
                        => PairResolved(p[1], Difference(p[1], p[2])))

\* the procedure has ended with the difference Sentence retained beside A
C17_Witness ==
    /\ pc = "done"
    /\ Len(knowledge) = 2
    /\ knowledge[1].cells \cap knowledge[2].cells = {}

\* C18. create_sentence(cell, count), in any engine state, returns the
\* Sentence whose cells are the neighbours of cell on the board that are in
\* neither mines nor safes and whose count is count minus the number of
\* neighbours in mines; building it changes no engine state (the Sentence is
\* then either found in knowledge or appended to it).
C18_CreateSentence ==
    [][/\ \A cell \in Cells, count \in 0 .. MaxCount :
             /\ create_sentence(cell, count, mines, safes).cells
                    = Neighbours(cell) \ (mines \cup safes)
             /\ create_sentence(cell, count, mines, safes).count
                    = count - Cardinality(Neighbours(cell) \cap mines)
       /\ pc = "create"
             => /\ UNCHANGED <<mines, safes, moves_made>>
                /\ knowledge' \in {knowledge, Append(knowledge, Built)}]_vars

\* a call has built its Sentence from a cell with a neighbour known to be a
\* mine, one known to be safe and one unknown
C18_Witness ==
    /\ pc = "forget"
    /\ arg.phase = 2
    /\ arg.new_sentence[1].cells # {}
    /\ Neighbours(arg.cell) \cap mines # {}
    /\ Neighbours(arg.cell) \cap safes # {}
    /\ arg.new_sentence[1].count < arg.count

\* C19. Sentence mutations: on every Sentence of knowledge and every cell,
\* whatever the clues, Sentence.mark_mine(cell) removes cell and lowers the
\* count by exactly 1 when cell is in cells, Sentence.mark_safe(cell)
\* removes cell and leaves the count; when cell is not in cells both leave
\* the Sentence as it is, so marking twice is marking once.
C19_SentenceMutations ==
    \A i \in 1 .. Len(knowledge), cell \in Cells :
        LET s == knowledge[i]
            m == Sentence_mark_mine(s, cell)
            f == Sentence_mark_safe(s, cell)
        IN /\ cell \in s.cells
                => /\ m.cells = s.cells \ {cell} /\ m.count = s.count - 1
                   /\ f.cells = s.cells \ {cell} /\ f.count = s.count
           /\ cell \notin s.cells => m = s /\ f = s
           /\ Sentence_mark_mine(m, cell) = m
           /\ Sentence_mark_safe(f, cell) = f

\* cells are about to be marked, one that a Sentence of knowledge holds
\* and one that a Sentence of knowledge does not hold
C19_Witness ==
    /\ pc \in {"mark_mines", "mark_safes"}
    /\ \E cell \in iter, i \in 1 .. Len(knowledge) :
          cell \in knowledge[i].cells
    /\ \E cell \in iter, i \in 1 .. Len(knowledge) :
          cell \notin knowledge[i].cells

\* C20. Every retained Sentence is true of the board: on every board and
\* with truthful clues, in every state (between two marks and after a
\* subset resolution included) the count of every Sentence of knowledge is
\* the number of real mines among its cells.
C20_SentencesTrue ==
    \A b \in worlds :
        \A i \in 1 .. Len(knowledge) :
            knowledge[i].count = Cardinality(knowledge[i].cells \cap b)

\* after a subset resolution, between two marks, with a mine known and a
\* Sentence retained that still holds a real mine
C20_Witness ==
    /\ pc \in {"mark_mines", "mark_safes"}
    /\ depth >= 1
    /\ mines # {}
    /\ \E i \in 1 .. Len(knowledge) : knowledge[i].count >= 1

====
